---- MODULE Spec2Model ----
(***************************************************************************)
(* Asynchronous video-job subsystem of the flower classification API:      *)
(* the submit / poll / cancel handlers of app/main.py, the worker routine  *)
(* of app/video_worker.py that runs in the process pool, the synchronous   *)
(* video handler, and the job / video stores they write.                   *)
(***************************************************************************)
EXTENDS Integers, Sequences, FiniteSets, TLC

\* ---------------------------------------------------------------- bounds
\* Number of uploads (each draws one fresh uuid4) in a behaviour.
MaxIds == 1
\* Size of the process pool (MAX_WORKERS in the environment).
MaxWorkers == 1
\* Longest list of detections of one image handed to the stage summary.
MaxDets == 2
\* Most frames of a video, and most detections in one frame.
MaxFrames == 2
MaxFrameDets == 1
\* Image uploads whose handlers are in flight together in the serving process.
MaxCallers == 3

Ids == 1..MaxIds

\* ------------------------------------------------------------- constants
PROGRESS_ANALYZING == 10
\* (variant: the second update reports less than the first)
PROGRESS_GENERATING_Low == PROGRESS_ANALYZING - 5
PROGRESS_GENERATING == 50
\* (variant: the third update repeats the progress of the second)
PROGRESS_SAVING_Repeat == PROGRESS_GENERATING
PROGRESS_SAVING == 80
PROGRESS_COMPLETED == 100
PROGRESS_FAILED == 0

\* Status code of a handler that returns its response model normally.
HTTP_OK == 200

\* An absent document, an unset field, no exception caught.
NoJob == [status |-> "absent"]
None == "none"

VARIABLES
    nextId,     \* the next uuid4 to be drawn (uuids never repeat)
    apc,        \* apc[i]: position of the request handler that drew id i
    resp,       \* resp[i]: HTTP status answered by that handler, 0 = not yet
    jobs,       \* the "jobs" collection: jobs[i] is the document with job_id i
    queue,      \* work items submitted to the executor, not yet started
    wpc,        \* wpc[i]: position of the worker routine of job i
    exc,        \* exc[i]: str(e) of the exception caught by the worker of job i
    lost,       \* lost[i]: kinds of status updates of job i whose write raised
    files,      \* files[i]: which of /tmp/{i}_input.mp4, /tmp/{i}_output.mp4 exist
    blobs,      \* GridFS: ids i of the uploads whose metadata.record_id is i
    vmeta,      \* the "video_classifications" collection, by document id
    lastPoll,   \* the answer of the latest GET /api/jobs/{job_id}
    prevPoll,   \* the answer before it, when that one reported "processing"
    upd,        \* upd[i]: status and progress of the latest _update_job_status call of worker i
    cancelled,  \* cancelled[i]: where worker i stood when DELETE /api/jobs/{i} removed the record
    body,       \* body[i]: status and progress in the answer of the submit handler of job i
    cls,        \* the "classifications" collection: cls[i] is the timestamp of document i, 0 = none
    vtime,      \* vtime[i]: the timestamp of the video_classifications document i, 0 = none
    clock,      \* datetime.utcnow(), counted in documents stamped so far
    dpc,        \* dpc[i]: position of the DELETE /api/video-classifications/{i} in flight
    reply,      \* the latest answer of a look-up, delete, list or rejected upload
    sumIn,      \* the detections handed to an aggregation
    sumOut,     \* the statistics it computed
    sd,         \* position of shutdown_event, "up" while the application serves
    ml          \* ml_model in the serving process: _model_cache and the calls of load_model

vars == <<nextId, apc, resp, jobs, queue, wpc, exc, lost, files, blobs, vmeta, lastPoll, prevPoll, upd, cancelled,
          body, cls, vtime, clock, dpc, reply, sumIn, sumOut, sd, ml>>

NoPoll == [job_id |-> 0, status |-> "absent", progress |-> 0, result |-> 0]

Terminal == {"completed", "failed"}

\* ------------------------------------------------------------- job store
\* JobRecord.create(job_id, job_type, status="queued", metadata)
JobCreate(js, j) ==
    [js EXCEPT ![j] = [status |-> "queued", progress |-> 0, result |-> 0,
                       error |-> None, completed_at |-> FALSE]]

\* JobRecord.update_status(job_id, status, message): a partial update of the
\* fields given, stamping completed_at for a terminal status; an id that is
\* not stored is ignored.
JobUpdateStatus(js, j, status) ==
    IF js[j] = NoJob THEN js
    ELSE [js EXCEPT ![j].status = status,
                    ![j].completed_at = IF status \in Terminal THEN TRUE ELSE @]

\* JobRecord.delete_by_id(job_id)
JobDelete(js, j) == [js EXCEPT ![j] = NoJob]

\* (variant: completed_at stamped for "completed" only)
UpdateJobStatus_NoStampOnFailed(js, j, status, progress, result, error) ==
    IF js[j] = NoJob THEN js
    ELSE [js EXCEPT ![j].status = status,
                    ![j].progress = progress,
                    ![j].result = IF result # 0 THEN result ELSE @,
                    ![j].error = IF error # None THEN error ELSE @,
                    ![j].completed_at = IF status = "completed" THEN TRUE ELSE @]

\* (variant: update_one(..., upsert=True) inserts the document when none matches)
UpdateJobStatus_Upsert(js, j, status, progress, result, error) ==
    [js EXCEPT ![j] = [status |-> status,
                       progress |-> progress,
                       result |-> IF result # 0 \/ js[j] = NoJob THEN result ELSE js[j].result,
                       error |-> IF error # None \/ js[j] = NoJob THEN error ELSE js[j].error,
                       completed_at |-> IF status \in Terminal THEN TRUE
                                        ELSE IF js[j] = NoJob THEN FALSE
                                        ELSE js[j].completed_at]]

\* _update_job_status: collection.update_one({"job_id": job_id}, {"$set": update_data})
\* result = 0 and error = None stand for the arguments left at None.
UpdateJobStatus(js, j, status, progress, result, error) ==
    IF js[j] = NoJob THEN js
    ELSE [js EXCEPT ![j].status = status,
                    ![j].progress = progress,
                    ![j].result = IF result # 0 THEN result ELSE @,
                    ![j].error = IF error # None THEN error ELSE @,
                    ![j].completed_at = IF status \in Terminal THEN TRUE ELSE @]

\* ------------------------------------------------------------------ pool
Running(i) == wpc[i] \notin {"idle", "pending", "done"}

\* The event loop runs one handler at a time between two awaits: the
\* synchronous video handler holds it while it classifies, annotates and
\* reads the output, and while its finally block runs.
LoopBusy == \E i \in DOMAIN apc : apc[i] \in {"s_classify", "s_annotate", "s_read", "s_finally"}

NoReply == [op |-> "none", id |-> 0, code |-> 0]
NoBody == [status |-> "none", progress |-> 0]
NoSum == [kind |-> "none"]

\* ml_model as imported: _model_cache = None, nothing loaded, no call made
NoModel == [cache |-> FALSE, loads |-> 0, pc |-> <<>>, calls |-> <<>>, got |-> <<>>]

\* the state after start-up, S being the uuids drawn in the behaviour
InitOver(S) ==
    /\ nextId = 1
    /\ apc = [i \in S |-> "new"]
    /\ resp = [i \in S |-> 0]
    /\ jobs = [i \in S |-> NoJob]
    /\ queue = <<>>
    /\ wpc = [i \in S |-> "idle"]
    /\ exc = [i \in S |-> None]
    /\ lost = [i \in S |-> {}]
    /\ files = [i \in S |-> [input |-> FALSE, output |-> FALSE]]
    /\ blobs = {}
    /\ vmeta = {}
    /\ lastPoll = NoPoll
    /\ prevPoll = NoPoll
    /\ upd = [i \in S |-> [status |-> "queued", progress |-> 0]]
    /\ cancelled = [i \in S |-> "no"]
    /\ body = [i \in S |-> NoBody]
    /\ cls = [i \in S |-> 0]
    /\ vtime = [i \in S |-> 0]
    /\ clock = 1
    /\ dpc = [i \in S |-> "idle"]
    /\ reply = NoReply
    /\ sumIn = NoSum
    /\ sumOut = NoSum
    /\ sd = "up"
    /\ ml = NoModel

Init == InitOver(Ids)

\* ---------------------------------------- POST /api/classify-video-async
\* (variant: the handler goes on without having written the input file)
SubmitWrite_NoFile ==
    /\ ~LoopBusy
    /\ nextId \in DOMAIN apc
    /\ apc[nextId] = "new"
    /\ apc' = [apc EXCEPT ![nextId] = "written"]
    /\ nextId' = nextId + 1
    /\ UNCHANGED <<resp, jobs, queue, wpc, exc, lost, files, blobs, vmeta, lastPoll, prevPoll, upd, cancelled>>
    /\ UNCHANGED <<body, cls, vtime, clock, dpc, reply, sumIn, sumOut>>
    /\ UNCHANGED <<sd, ml>>

\* content type accepted, upload read, uuid drawn, input file written
SubmitWrite ==
    /\ ~LoopBusy
    /\ nextId \in DOMAIN apc
    /\ apc[nextId] = "new"
    /\ apc' = [apc EXCEPT ![nextId] = "written"]
    /\ files' = [files EXCEPT ![nextId].input = TRUE]
    /\ nextId' = nextId + 1
    /\ UNCHANGED <<resp, jobs, queue, wpc, exc, lost, blobs, vmeta, lastPoll, prevPoll, upd, cancelled>>
    /\ UNCHANGED <<body, cls, vtime, clock, dpc, reply, sumIn, sumOut>>
    /\ UNCHANGED <<sd, ml>>

\* await JobRecord.create(...): stored, or it raises and the handler
\* removes the input file and answers 500
SubmitCreate(j) ==
    /\ ~LoopBusy
    /\ apc[j] = "written"
    /\ \/ /\ jobs' = JobCreate(jobs, j)
          /\ apc' = [apc EXCEPT ![j] = "created"]
          /\ UNCHANGED <<resp, files>>
       \/ /\ files' = [files EXCEPT ![j].input = FALSE]
          /\ apc' = [apc EXCEPT ![j] = "err_create"]
          /\ resp' = [resp EXCEPT ![j] = 500]
          /\ UNCHANGED jobs
    /\ UNCHANGED <<nextId, queue, wpc, exc, lost, blobs, vmeta, lastPoll, prevPoll, upd, cancelled>>
    /\ UNCHANGED <<body, cls, vtime, clock, dpc, reply, sumIn, sumOut>>
    /\ UNCHANGED <<sd, ml>>

\* (variant: the failed dispatch is answered like a successful one)
DispatchFailureCode_Ok == HTTP_OK

\* HTTPException(status_code=500, ...) raised when submitting to the pool fails
DispatchFailureCode == 500

\* (variant: the answer reports the job as already being processed)
SubmitBody_Processing == [status |-> "processing", progress |-> PROGRESS_ANALYZING]

\* JobStatusResponse(job_id=job_id, status="queued", progress=0, ...)
SubmitBody == [status |-> "queued", progress |-> 0]

\* loop.run_in_executor(executor, process_video_sync, ...), then
\* job = await JobRecord.get_by_id(job_id) and the answer.
\*  - the work item is queued in the pool and the handler answers 200;
\*  - the same, but a DELETE /api/jobs/{job_id} is served while the handler
\*    awaits get_by_id: job is None and job["created_at"] raises;
\*  - submitting raises: the handler marks the job failed, removes the input
\*    file and raises HTTPException.
SubmitDispatch(j) ==
    /\ ~LoopBusy
    /\ apc[j] = "created"
    /\ \/ /\ queue' = Append(queue, j)
          /\ wpc' = [wpc EXCEPT ![j] = "pending"]
          /\ apc' = [apc EXCEPT ![j] = "returned"]
          /\ \/ /\ resp' = [resp EXCEPT ![j] = IF jobs[j] = NoJob THEN 500 ELSE HTTP_OK]
                /\ body' = [body EXCEPT ![j] = IF jobs[j] = NoJob THEN NoBody ELSE SubmitBody]
                /\ UNCHANGED <<jobs, cancelled>>
             \/ /\ jobs[j] # NoJob
                /\ jobs' = JobDelete(jobs, j)
                /\ cancelled' = [cancelled EXCEPT ![j] = "queued"]
                /\ resp' = [resp EXCEPT ![j] = 500]
                /\ UNCHANGED body
          /\ UNCHANGED files
       \/ /\ jobs' = JobUpdateStatus(jobs, j, "failed")
          /\ files' = [files EXCEPT ![j].input = FALSE]
          /\ apc' = [apc EXCEPT ![j] = "err_dispatch"]
          /\ resp' = [resp EXCEPT ![j] = DispatchFailureCode]
          /\ UNCHANGED <<queue, wpc, cancelled, body>>
    /\ UNCHANGED <<nextId, exc, lost, blobs, vmeta, lastPoll, prevPoll, upd>>
    /\ UNCHANGED <<cls, vtime, clock, dpc, reply, sumIn, sumOut>>
    /\ UNCHANGED <<sd, ml>>

\* ------------------------------------------- worker: process_video_sync
\* (variant: a work item is started although every worker process is busy)
WorkerStart_NoLimit(j) ==
    /\ queue # <<>>
    /\ Head(queue) = j
    /\ queue' = Tail(queue)
    /\ wpc' = [wpc EXCEPT ![j] = "import"]
    /\ UNCHANGED <<nextId, apc, resp, jobs, exc, lost, files, blobs, vmeta, lastPoll, prevPoll, upd, cancelled>>
    /\ UNCHANGED <<body, cls, vtime, clock, dpc, reply, sumIn, sumOut>>
    /\ UNCHANGED <<sd, ml>>

\* the pool hands the oldest queued work item to a free worker process
WorkerStart(j) ==
    /\ queue # <<>>
    /\ Head(queue) = j
    /\ Cardinality({i \in DOMAIN wpc : Running(i)}) < MaxWorkers
    /\ queue' = Tail(queue)
    /\ wpc' = [wpc EXCEPT ![j] = "import"]
    /\ UNCHANGED <<nextId, apc, resp, jobs, exc, lost, files, blobs, vmeta, lastPoll, prevPoll, upd, cancelled>>
    /\ UNCHANGED <<body, cls, vtime, clock, dpc, reply, sumIn, sumOut>>
    /\ UNCHANGED <<sd, ml>>

\* asyncio.run(_update_job_status(...)): the write is applied, or it raises
\* inside _update_job_status, which logs the error and returns
StatusWrite(j, status, progress, result, error) ==
    /\ upd' = [upd EXCEPT ![j] = [status |-> status, progress |-> progress]]
    /\ \/ /\ jobs' = UpdateJobStatus(jobs, j, status, progress, result, error)
          /\ UNCHANGED lost
       \/ /\ lost' = [lost EXCEPT ![j] = @ \cup {status}]
          /\ UNCHANGED jobs

\* except Exception as e: control passes to the handler with str(e) = what
Raise(j, what) ==
    /\ exc' = [exc EXCEPT ![j] = what]
    /\ wpc' = [wpc EXCEPT ![j] = "update_failed"]

Goto(j, pos) ==
    /\ wpc' = [wpc EXCEPT ![j] = pos]
    /\ UNCHANGED exc

\* from .ml_model import classify_video, generate_annotated_video
Import(j) ==
    /\ wpc[j] = "import"
    /\ \/ Goto(j, "update_analyzing")
       \/ Raise(j, "import")
    /\ UNCHANGED <<nextId, apc, resp, jobs, queue, lost, files, blobs, vmeta, lastPoll, prevPoll, upd, cancelled>>
    /\ UNCHANGED <<body, cls, vtime, clock, dpc, reply, sumIn, sumOut>>
    /\ UNCHANGED <<sd, ml>>

\* status="processing", progress=10, "Analyzing video frames..."
UpdateAnalyzing(j) ==
    /\ wpc[j] = "update_analyzing"
    /\ StatusWrite(j, "processing", PROGRESS_ANALYZING, 0, None)
    /\ Goto(j, "classify")
    /\ UNCHANGED <<nextId, apc, resp, queue, files, blobs, vmeta, lastPoll, prevPoll, cancelled>>
    /\ UNCHANGED <<body, cls, vtime, clock, dpc, reply, sumIn, sumOut>>
    /\ UNCHANGED <<sd, ml>>

\* classification_result = classify_video(video_path, ...)
Classify(j) ==
    /\ wpc[j] = "classify"
    /\ \/ Goto(j, "update_generating")
       \/ Raise(j, "classify_video")
    /\ UNCHANGED <<nextId, apc, resp, jobs, queue, lost, files, blobs, vmeta, lastPoll, prevPoll, upd, cancelled>>
    /\ UNCHANGED <<body, cls, vtime, clock, dpc, reply, sumIn, sumOut>>
    /\ UNCHANGED <<sd, ml>>

\* status="processing", progress=50, "Generating annotated video..."
UpdateGenerating(j) ==
    /\ wpc[j] = "update_generating"
    /\ StatusWrite(j, "processing", PROGRESS_GENERATING, 0, None)
    /\ Goto(j, "annotate")
    /\ UNCHANGED <<nextId, apc, resp, queue, files, blobs, vmeta, lastPoll, prevPoll, cancelled>>
    /\ UNCHANGED <<body, cls, vtime, clock, dpc, reply, sumIn, sumOut>>
    /\ UNCHANGED <<sd, ml>>

\* generate_annotated_video(video_path, output_path, ...): returns, with or
\* without an output file on disk, or raises, with or without a partial one
Annotate(j) ==
    /\ wpc[j] = "annotate"
    /\ \E written \in BOOLEAN :
          /\ files' = [files EXCEPT ![j].output = written]
          /\ \/ Goto(j, "update_saving")
             \/ Raise(j, "generate_annotated_video")
    /\ UNCHANGED <<nextId, apc, resp, jobs, queue, lost, blobs, vmeta, lastPoll, prevPoll, upd, cancelled>>
    /\ UNCHANGED <<body, cls, vtime, clock, dpc, reply, sumIn, sumOut>>
    /\ UNCHANGED <<sd, ml>>

\* status="processing", progress=80, "Saving to database..."
UpdateSaving(j) ==
    /\ wpc[j] = "update_saving"
    /\ StatusWrite(j, "processing", PROGRESS_SAVING, 0, None)
    /\ Goto(j, "read")
    /\ UNCHANGED <<nextId, apc, resp, queue, files, blobs, vmeta, lastPoll, prevPoll, cancelled>>
    /\ UNCHANGED <<body, cls, vtime, clock, dpc, reply, sumIn, sumOut>>
    /\ UNCHANGED <<sd, ml>>

\* with open(output_path, 'rb') as f: annotated_video_bytes = f.read()
ReadOutput(j) ==
    /\ wpc[j] = "read"
    /\ IF files[j].output THEN Goto(j, "upload") ELSE Raise(j, "open")
    /\ UNCHANGED <<nextId, apc, resp, jobs, queue, lost, files, blobs, vmeta, lastPoll, prevPoll, upd, cancelled>>
    /\ UNCHANGED <<body, cls, vtime, clock, dpc, reply, sumIn, sumOut>>
    /\ UNCHANGED <<sd, ml>>

\* _save_video_to_mongodb: video_id = await bucket.upload_from_stream(...)
SaveUpload(j) ==
    /\ wpc[j] = "upload"
    /\ \/ /\ blobs' = blobs \cup {j}
          /\ Goto(j, "insert")
       \/ /\ Raise(j, "upload_from_stream")
          /\ UNCHANGED blobs
    /\ UNCHANGED <<nextId, apc, resp, jobs, queue, lost, files, vmeta, lastPoll, prevPoll, upd, cancelled>>
    /\ UNCHANGED <<body, cls, vtime, clock, dpc, reply, sumIn, sumOut>>
    /\ UNCHANGED <<sd, ml>>

\* (variant: the metadata document is not written before the routine goes on)
SaveInsert_Skipped(j) ==
    /\ wpc[j] = "insert"
    /\ Goto(j, "cleanup")
    /\ UNCHANGED <<nextId, apc, resp, jobs, queue, lost, files, blobs, vmeta, lastPoll, prevPoll, upd, cancelled>>
    /\ UNCHANGED <<body, cls, vtime, clock, dpc, reply, sumIn, sumOut>>
    /\ UNCHANGED <<sd, ml>>

\* (variant: when insert_one raises, the blob uploaded before is deleted again)
SaveInsert_Compensating(j) ==
    /\ wpc[j] = "insert"
    /\ \/ /\ vmeta' = vmeta \cup {j}
          /\ vtime' = [vtime EXCEPT ![j] = clock]
          /\ clock' = clock + 1
          /\ Goto(j, "cleanup")
          /\ UNCHANGED blobs
       \/ /\ Raise(j, "insert_one")
          /\ blobs' = blobs \ {j}
          /\ UNCHANGED <<vmeta, vtime, clock>>
    /\ UNCHANGED <<nextId, apc, resp, jobs, queue, lost, files, lastPoll, prevPoll, upd, cancelled>>
    /\ UNCHANGED <<body, cls, dpc, reply, sumIn, sumOut>>
    /\ UNCHANGED <<sd, ml>>

\* _save_video_to_mongodb: await collection.insert_one(document), "id": job_id
SaveInsert(j) ==
    /\ wpc[j] = "insert"
    /\ \/ /\ vmeta' = vmeta \cup {j}
          /\ vtime' = [vtime EXCEPT ![j] = clock]
          /\ clock' = clock + 1
          /\ Goto(j, "cleanup")
       \/ /\ Raise(j, "insert_one")
          /\ UNCHANGED <<vmeta, vtime, clock>>
    /\ UNCHANGED <<nextId, apc, resp, jobs, queue, lost, files, blobs, lastPoll, prevPoll, upd, cancelled>>
    /\ UNCHANGED <<body, cls, dpc, reply, sumIn, sumOut>>
    /\ UNCHANGED <<sd, ml>>

\* if os.path.exists(video_path): os.remove(video_path)
\* if os.path.exists(output_path): os.remove(output_path)
\* gives the files left when the first os.remove that raises is the one of
\* `stop` ("input", "output"), or when none raises ("none")
RemoveFiles(f, stop) ==
    IF stop = "input" /\ f.input THEN f
    ELSE IF stop = "output" /\ f.output THEN [f EXCEPT !.input = FALSE]
    ELSE [input |-> FALSE, output |-> FALSE]

RemoveRaises(f, stop) ==
    \/ stop = "input" /\ f.input
    \/ stop = "output" /\ f.output

\* Step 4: Cleanup temporary files
Cleanup(j) ==
    /\ wpc[j] = "cleanup"
    /\ \E stop \in {"none", "input", "output"} :
          /\ files' = [files EXCEPT ![j] = RemoveFiles(@, stop)]
          /\ IF RemoveRaises(files[j], stop)
                THEN Raise(j, "os.remove")
                ELSE Goto(j, "update_completed")
    /\ UNCHANGED <<nextId, apc, resp, jobs, queue, lost, blobs, vmeta, lastPoll, prevPoll, upd, cancelled>>
    /\ UNCHANGED <<body, cls, vtime, clock, dpc, reply, sumIn, sumOut>>
    /\ UNCHANGED <<sd, ml>>

\* (variant: a statement after the completed update raises inside the try block)
UpdateCompleted_ThenRaise(j) ==
    /\ wpc[j] = "update_completed"
    /\ StatusWrite(j, "completed", PROGRESS_COMPLETED, j, None)
    /\ Raise(j, "return")
    /\ UNCHANGED <<nextId, apc, resp, queue, files, blobs, vmeta, lastPoll, prevPoll, cancelled>>
    /\ UNCHANGED <<body, cls, vtime, clock, dpc, reply, sumIn, sumOut>>
    /\ UNCHANGED <<sd, ml>>

\* status="completed", progress=100, result=result; return result
UpdateCompleted(j) ==
    /\ wpc[j] = "update_completed"
    /\ StatusWrite(j, "completed", PROGRESS_COMPLETED, j, None)
    /\ Goto(j, "done")
    /\ UNCHANGED <<nextId, apc, resp, queue, files, blobs, vmeta, lastPoll, prevPoll, cancelled>>
    /\ UNCHANGED <<body, cls, vtime, clock, dpc, reply, sumIn, sumOut>>
    /\ UNCHANGED <<sd, ml>>

\* (variant: the handler cleans up without writing the failed status)
UpdateFailed_Skipped(j) ==
    /\ wpc[j] = "update_failed"
    /\ Goto(j, "cleanup_failed")
    /\ UNCHANGED <<nextId, apc, resp, jobs, queue, lost, files, blobs, vmeta, lastPoll, prevPoll, upd, cancelled>>
    /\ UNCHANGED <<body, cls, vtime, clock, dpc, reply, sumIn, sumOut>>
    /\ UNCHANGED <<sd, ml>>

\* (variant: the handler's update leaves out error=str(e))
UpdateFailed_NoError(j) ==
    /\ wpc[j] = "update_failed"
    /\ StatusWrite(j, "failed", PROGRESS_FAILED, 0, None)
    /\ Goto(j, "cleanup_failed")
    /\ UNCHANGED <<nextId, apc, resp, queue, files, blobs, vmeta, lastPoll, prevPoll, cancelled>>
    /\ UNCHANGED <<body, cls, vtime, clock, dpc, reply, sumIn, sumOut>>
    /\ UNCHANGED <<sd, ml>>

\* handler: status="failed", progress=0, error=str(e)
UpdateFailed(j) ==
    /\ wpc[j] = "update_failed"
    /\ StatusWrite(j, "failed", PROGRESS_FAILED, 0, exc[j])
    /\ Goto(j, "cleanup_failed")
    /\ UNCHANGED <<nextId, apc, resp, queue, files, blobs, vmeta, lastPoll, prevPoll, cancelled>>
    /\ UNCHANGED <<body, cls, vtime, clock, dpc, reply, sumIn, sumOut>>
    /\ UNCHANGED <<sd, ml>>

\* (variant: the handler removes every transient file it finds in /tmp)
CleanupFailed_Sweep(j) ==
    /\ wpc[j] = "cleanup_failed"
    /\ files' = [i \in DOMAIN files |-> [input |-> FALSE, output |-> FALSE]]
    /\ Goto(j, "done")
    /\ UNCHANGED <<nextId, apc, resp, jobs, queue, lost, blobs, vmeta, lastPoll, prevPoll, upd, cancelled>>
    /\ UNCHANGED <<body, cls, vtime, clock, dpc, reply, sumIn, sumOut>>
    /\ UNCHANGED <<sd, ml>>

\* handler: Cleanup on error, then raise
CleanupFailed(j) ==
    /\ wpc[j] = "cleanup_failed"
    /\ \E stop \in {"none", "input", "output"} :
          files' = [files EXCEPT ![j] = RemoveFiles(@, stop)]
    /\ Goto(j, "done")
    /\ UNCHANGED <<nextId, apc, resp, jobs, queue, lost, blobs, vmeta, lastPoll, prevPoll, upd, cancelled>>
    /\ UNCHANGED <<body, cls, vtime, clock, dpc, reply, sumIn, sumOut>>
    /\ UNCHANGED <<sd, ml>>

\* ------------------------------------------------- GET /api/jobs/{job_id}
\* A client polls the job_id it was given; it keeps the answer before the
\* latest one as long as that answer reported "processing".
GetJobStatus(j) ==
    /\ ~LoopBusy
    /\ lastPoll.job_id \in {0, j}
    /\ jobs[j] # NoJob
    /\ lastPoll' = [job_id |-> j, status |-> jobs[j].status, progress |-> jobs[j].progress,
                     result |-> jobs[j].result]
    /\ prevPoll' = IF lastPoll.status = "processing" THEN lastPoll ELSE NoPoll
    /\ UNCHANGED <<nextId, apc, resp, jobs, queue, wpc, exc, lost, files, blobs, vmeta, upd, cancelled>>
    /\ UNCHANGED <<body, cls, vtime, clock, dpc, reply, sumIn, sumOut>>
    /\ UNCHANGED <<sd, ml>>

\* ---------------------------------------------------------- GET /api/jobs
\* JobRecord.get_active_jobs(): the stored jobs that are queued or processing
JobGetActiveJobs(js) ==
    {j \in DOMAIN js : js[j] # NoJob /\ js[j].status \in {"queued", "processing"}}

\* the cursor's documents, in the order of their creation
RECURSIVE InOrder(_)
InOrder(S) ==
    IF S = {} THEN <<>>
    ELSE LET m == CHOOSE x \in S : \A y \in S : x <= y
         IN  <<m>> \o InOrder(S \ {m})

\* the entry of one job in the answer
JobEntry(js, j) == [job_id |-> j, status |-> js[j].status, progress |-> js[j].progress]

\* (variant: the handler lists every stored job)
ListActiveJobs_All(js) ==
    LET found == InOrder({i \in DOMAIN js : js[i] # NoJob})
    IN  [k \in DOMAIN found |-> JobEntry(js, found[k])]

\* jobs = await JobRecord.get_active_jobs(); the answer has one entry per
\* job returned. The handler reads the store and writes nothing: its answer
\* is a function of the jobs collection.
ListActiveJobs(js) ==
    LET found == InOrder(JobGetActiveJobs(js))
    IN  [k \in DOMAIN found |-> JobEntry(js, found[k])]

\* ---------------------------------------------- DELETE /api/jobs/{job_id}
WorkerPhase(j) ==
    IF Running(j) THEN "running" ELSE IF wpc[j] = "done" THEN "ended" ELSE "queued"

CancelJob(j) ==
    /\ ~LoopBusy
    /\ jobs[j] # NoJob
    /\ jobs' = JobDelete(jobs, j)
    /\ cancelled' = [cancelled EXCEPT ![j] = WorkerPhase(j)]
    /\ UNCHANGED <<nextId, apc, resp, queue, wpc, exc, lost, files, blobs, vmeta, lastPoll, prevPoll, upd>>
    /\ UNCHANGED <<body, cls, vtime, clock, dpc, reply, sumIn, sumOut>>
    /\ UNCHANGED <<sd, ml>>

\* ------------------------------------------------ POST /api/classify-video
\* An HTTPException raised inside the try block, and the value returned, are
\* held in resp until the finally block has run.
SyncGoto(i, pos, code) ==
    /\ apc' = [apc EXCEPT ![i] = pos]
    /\ resp' = [resp EXCEPT ![i] = code]

\* content type accepted, upload read, uuid drawn, input file written
SyncBegin ==
    /\ ~LoopBusy
    /\ nextId \in DOMAIN apc
    /\ apc[nextId] = "new"
    /\ apc' = [apc EXCEPT ![nextId] = "s_classify"]
    /\ files' = [files EXCEPT ![nextId].input = TRUE]
    /\ nextId' = nextId + 1
    /\ UNCHANGED <<resp, jobs, queue, wpc, exc, lost, blobs, vmeta, lastPoll, prevPoll, upd, cancelled>>
    /\ UNCHANGED <<body, cls, vtime, clock, dpc, reply, sumIn, sumOut>>
    /\ UNCHANGED <<sd, ml>>

\* classification_result = classify_video(temp_video_path)
SyncClassify(i) ==
    /\ apc[i] = "s_classify"
    /\ \/ SyncGoto(i, "s_annotate", 0)
       \/ SyncGoto(i, "s_finally", 500)
    /\ UNCHANGED <<nextId, jobs, queue, wpc, exc, lost, files, blobs, vmeta, lastPoll, prevPoll, upd, cancelled>>
    /\ UNCHANGED <<body, cls, vtime, clock, dpc, reply, sumIn, sumOut>>
    /\ UNCHANGED <<sd, ml>>

\* generate_annotated_video(temp_video_path, temp_output_path, ...)
SyncAnnotate(i) ==
    /\ apc[i] = "s_annotate"
    /\ \E written \in BOOLEAN :
          /\ files' = [files EXCEPT ![i].output = written]
          /\ \/ SyncGoto(i, "s_read", 0)
             \/ SyncGoto(i, "s_finally", 500)
    /\ UNCHANGED <<nextId, jobs, queue, wpc, exc, lost, blobs, vmeta, lastPoll, prevPoll, upd, cancelled>>
    /\ UNCHANGED <<body, cls, vtime, clock, dpc, reply, sumIn, sumOut>>
    /\ UNCHANGED <<sd, ml>>

\* if not os.path.exists(temp_output_path): raise HTTPException(500); read it
SyncRead(i) ==
    /\ apc[i] = "s_read"
    /\ IF files[i].output THEN SyncGoto(i, "s_upload", 0)
                          ELSE SyncGoto(i, "s_finally", 500)
    /\ UNCHANGED <<nextId, jobs, queue, wpc, exc, lost, files, blobs, vmeta, lastPoll, prevPoll, upd, cancelled>>
    /\ UNCHANGED <<body, cls, vtime, clock, dpc, reply, sumIn, sumOut>>
    /\ UNCHANGED <<sd, ml>>

\* (variant: the handler goes on to insert_one without the blob stored)
SyncUpload_NoBlob(i) ==
    /\ ~LoopBusy
    /\ apc[i] = "s_upload"
    /\ SyncGoto(i, "s_insert", 0)
    /\ UNCHANGED <<nextId, jobs, queue, wpc, exc, lost, files, blobs, vmeta, lastPoll, prevPoll, upd, cancelled>>
    /\ UNCHANGED <<body, cls, vtime, clock, dpc, reply, sumIn, sumOut>>
    /\ UNCHANGED <<sd, ml>>

\* VideoClassificationRecord.create: await bucket.upload_from_stream(...)
SyncUpload(i) ==
    /\ ~LoopBusy
    /\ apc[i] = "s_upload"
    /\ \/ /\ blobs' = blobs \cup {i}
          /\ SyncGoto(i, "s_insert", 0)
       \/ /\ SyncGoto(i, "s_finally", 500)
          /\ UNCHANGED blobs
    /\ UNCHANGED <<nextId, jobs, queue, wpc, exc, lost, files, vmeta, lastPoll, prevPoll, upd, cancelled>>
    /\ UNCHANGED <<body, cls, vtime, clock, dpc, reply, sumIn, sumOut>>
    /\ UNCHANGED <<sd, ml>>

\* VideoClassificationRecord.create: await collection.insert_one(document)
SyncInsert(i) ==
    /\ ~LoopBusy
    /\ apc[i] = "s_insert"
    /\ \/ /\ vmeta' = vmeta \cup {i}
          /\ vtime' = [vtime EXCEPT ![i] = clock]
          /\ clock' = clock + 1
          /\ SyncGoto(i, "s_respond", 0)
       \/ /\ SyncGoto(i, "s_finally", 500)
          /\ UNCHANGED <<vmeta, vtime, clock>>
    /\ UNCHANGED <<nextId, jobs, queue, wpc, exc, lost, files, blobs, lastPoll, prevPoll, upd, cancelled>>
    /\ UNCHANGED <<body, cls, dpc, reply, sumIn, sumOut>>
    /\ UNCHANGED <<sd, ml>>

\* record = await VideoClassificationRecord.get_by_id(record_id);
\* return VideoClassificationResponse(...): record["timestamp"] raises when
\* the document is gone
SyncRespond(i) ==
    /\ ~LoopBusy
    /\ apc[i] = "s_respond"
    /\ SyncGoto(i, "s_finally", IF i \in vmeta THEN HTTP_OK ELSE 500)
    /\ UNCHANGED <<nextId, jobs, queue, wpc, exc, lost, files, blobs, vmeta, lastPoll, prevPoll, upd, cancelled>>
    /\ UNCHANGED <<body, cls, vtime, clock, dpc, reply, sumIn, sumOut>>
    /\ UNCHANGED <<sd, ml>>

\* finally: Cleanup temporary files; an os.remove that raises replaces the
\* pending answer
SyncFinally(i) ==
    /\ apc[i] = "s_finally"
    /\ \E stop \in {"none", "input", "output"} :
          /\ files' = [files EXCEPT ![i] = RemoveFiles(@, stop)]
          /\ SyncGoto(i, "s_done", IF RemoveRaises(files[i], stop) THEN 500 ELSE resp[i])
    /\ UNCHANGED <<nextId, jobs, queue, wpc, exc, lost, blobs, vmeta, lastPoll, prevPoll, upd, cancelled>>
    /\ UNCHANGED <<body, cls, vtime, clock, dpc, reply, sumIn, sumOut>>
    /\ UNCHANGED <<sd, ml>>

\* --------------------------------------------------------- content types
\* file.content_type: absent, or major/minor
ContentTypes == {<<>>, <<"image", "jpeg">>, <<"video", "mp4">>, <<"text", "plain">>}

\* file.content_type and file.content_type.startswith(major + "/")
Accepted(ct, major) == ct # <<>> /\ ct[1] = major

\* if not file.content_type or not file.content_type.startswith(...):
\*     raise HTTPException(status_code=400, ...)
\* the first statement of an upload handler
Reject(op, major) ==
    /\ ~LoopBusy
    /\ \E ct \in ContentTypes : ~Accepted(ct, major)
    /\ reply' = [op |-> op, id |-> 0, code |-> 400]
    /\ UNCHANGED <<nextId, apc, resp, jobs, queue, wpc, exc, lost, files, blobs, vmeta, lastPoll, prevPoll, upd, cancelled>>
    /\ UNCHANGED <<body, cls, vtime, clock, dpc, sumIn, sumOut>>
    /\ UNCHANGED <<sd, ml>>

\* POST /api/classify with a content type that is not image/*
ImageReject == Reject("classify", "image")

\* POST /api/classify-video with a content type that is not video/*
SyncReject == Reject("classify-video", "video")

\* (variant: the upload is written to its input file before the content type is looked at)
SubmitReject_AfterWrite ==
    /\ ~LoopBusy
    /\ nextId \in DOMAIN apc
    /\ apc[nextId] = "new"
    /\ \E ct \in ContentTypes : ~Accepted(ct, "video")
    /\ apc' = [apc EXCEPT ![nextId] = "rejected"]
    /\ files' = [files EXCEPT ![nextId].input = TRUE]
    /\ nextId' = nextId + 1
    /\ reply' = [op |-> "classify-video-async", id |-> 0, code |-> 400]
    /\ UNCHANGED <<resp, jobs, queue, wpc, exc, lost, blobs, vmeta, lastPoll, prevPoll, upd, cancelled>>
    /\ UNCHANGED <<body, cls, vtime, clock, dpc, sumIn, sumOut>>
    /\ UNCHANGED <<sd, ml>>

\* POST /api/classify-video-async with a content type that is not video/*
SubmitReject == Reject("classify-video-async", "video")

\* ------------------------------------------------------ POST /api/classify
\* content type accepted, upload read, uuid drawn; classify_image and
\* generate_annotated_image return, or one of them raises: 500
ImageBegin ==
    /\ ~LoopBusy
    /\ nextId \in DOMAIN apc
    /\ apc[nextId] = "new"
    /\ nextId' = nextId + 1
    /\ \/ /\ apc' = [apc EXCEPT ![nextId] = "i_create"]
          /\ UNCHANGED resp
       \/ /\ apc' = [apc EXCEPT ![nextId] = "i_done"]
          /\ resp' = [resp EXCEPT ![nextId] = 500]
    /\ UNCHANGED <<jobs, queue, wpc, exc, lost, files, blobs, vmeta, lastPoll, prevPoll, upd, cancelled>>
    /\ UNCHANGED <<body, cls, vtime, clock, dpc, reply, sumIn, sumOut>>
    /\ UNCHANGED <<sd, ml>>

\* ClassificationRecord.create: "timestamp": datetime.utcnow(),
\* await collection.insert_one(document); or it raises: 500
ImageCreate(i) ==
    /\ ~LoopBusy
    /\ apc[i] = "i_create"
    /\ \/ /\ cls' = [cls EXCEPT ![i] = clock]
          /\ clock' = clock + 1
          /\ apc' = [apc EXCEPT ![i] = "i_respond"]
          /\ UNCHANGED resp
       \/ /\ apc' = [apc EXCEPT ![i] = "i_done"]
          /\ resp' = [resp EXCEPT ![i] = 500]
          /\ UNCHANGED <<cls, clock>>
    /\ UNCHANGED <<nextId, jobs, queue, wpc, exc, lost, files, blobs, vmeta, lastPoll, prevPoll, upd, cancelled>>
    /\ UNCHANGED <<body, vtime, dpc, reply, sumIn, sumOut>>
    /\ UNCHANGED <<sd, ml>>

\* record = await ClassificationRecord.get_by_id(record_id);
\* return ClassificationResponse(..., timestamp=record["timestamp"], ...):
\* record["timestamp"] raises when the document is gone
ImageRespond(i) ==
    /\ ~LoopBusy
    /\ apc[i] = "i_respond"
    /\ apc' = [apc EXCEPT ![i] = "i_done"]
    /\ resp' = [resp EXCEPT ![i] = IF cls[i] = 0 THEN 500 ELSE HTTP_OK]
    /\ UNCHANGED <<nextId, jobs, queue, wpc, exc, lost, files, blobs, vmeta, lastPoll, prevPoll, upd, cancelled>>
    /\ UNCHANGED <<body, cls, vtime, clock, dpc, reply, sumIn, sumOut>>
    /\ UNCHANGED <<sd, ml>>

\* ------------------------------------------------------------ look-ups
\* The handlers below read a store and write nothing: their answer is a
\* function of the store.

\* GET /api/classifications/{record_id}: 404 when find_one gives None
GetClassification(c, i) == IF c[i] = 0 THEN 404 ELSE HTTP_OK

\* GET /api/jobs/{job_id}: 404 when JobRecord.get_by_id gives None
JobStatusCode(js, j) == IF js[j] = NoJob THEN 404 ELSE HTTP_OK

\* VideoClassificationRecord.get_by_id: the document, None when not stored
VideoGetById(vm, i) == i \in vm

\* VideoClassificationRecord.get_video_bytes: None when the document is not
\* stored or open_download_stream(video_gridfs_id) raises
GetVideoBytes(vm, bl, i) == VideoGetById(vm, i) /\ i \in bl

\* GET /api/videos/{record_id}
GetVideo(vm, bl, i) == IF GetVideoBytes(vm, bl, i) THEN HTTP_OK ELSE 404

\* (variant: collection.find({}).sort("timestamp", 1))
RECURSIVE SortByTimestamp_Ascending(_, _)
SortByTimestamp_Ascending(ts, S) ==
    IF S = {} THEN <<>>
    ELSE LET m == CHOOSE x \in S : \A y \in S : ts[x] <= ts[y]
         IN  <<[id |-> m, timestamp |-> ts[m]]>> \o SortByTimestamp_Ascending(ts, S \ {m})

\* collection.find({}).sort("timestamp", -1), to_list: the documents with
\* ids S, the greatest timestamp first
RECURSIVE SortByTimestamp(_, _)
SortByTimestamp(ts, S) ==
    IF S = {} THEN <<>>
    ELSE LET m == CHOOSE x \in S : \A y \in S : ts[x] >= ts[y]
         IN  <<[id |-> m, timestamp |-> ts[m]]>> \o SortByTimestamp(ts, S \ {m})

\* ClassificationRecord.get_all()
ClassificationGetAll(c) == SortByTimestamp(c, {i \in DOMAIN c : c[i] # 0})

\* VideoClassificationRecord.get_all()
VideoGetAll(vm, vt) == SortByTimestamp(vt, vm)

\* ------------------------------- DELETE /api/classifications/{record_id}
\* result = await collection.delete_one({"id": record_id}); 404 when
\* deleted_count is 0, 500 when the store raises
DeleteClassification(i) ==
    /\ ~LoopBusy
    /\ \/ /\ cls' = [cls EXCEPT ![i] = 0]
          /\ reply' = [op |-> "delete_classification", id |-> i,
                       code |-> IF cls[i] = 0 THEN 404 ELSE HTTP_OK]
       \/ /\ reply' = [op |-> "delete_classification", id |-> i, code |-> 500]
          /\ UNCHANGED cls
    /\ UNCHANGED <<nextId, apc, resp, jobs, queue, wpc, exc, lost, files, blobs, vmeta, lastPoll, prevPoll, upd, cancelled>>
    /\ UNCHANGED <<body, vtime, clock, dpc, sumIn, sumOut>>
    /\ UNCHANGED <<sd, ml>>

\* ------------------------- DELETE /api/video-classifications/{record_id}
\* VideoClassificationRecord.delete_by_id, one request in flight per id.
\* record = await get_by_id(record_id); if not record: return False (404)
DeleteVideoLookup(i) ==
    /\ ~LoopBusy
    /\ dpc[i] = "idle"
    /\ \/ /\ VideoGetById(vmeta, i)
          /\ dpc' = [dpc EXCEPT ![i] = "blob"]
          /\ UNCHANGED reply
       \/ /\ ~VideoGetById(vmeta, i)
          /\ reply' = [op |-> "delete_video", id |-> i, code |-> 404]
          /\ UNCHANGED dpc
       \/ /\ reply' = [op |-> "delete_video", id |-> i, code |-> 500]
          /\ UNCHANGED dpc
    /\ UNCHANGED <<nextId, apc, resp, jobs, queue, wpc, exc, lost, files, blobs, vmeta, lastPoll, prevPoll, upd, cancelled>>
    /\ UNCHANGED <<body, cls, vtime, clock, sumIn, sumOut>>
    /\ UNCHANGED <<sd, ml>>

\* try: await bucket.delete(video_id)
\* except Exception as e: logger.error(...)
\* the blob is removed, or bucket.delete raises and the request goes on
DeleteVideoBlob(i) ==
    /\ ~LoopBusy
    /\ dpc[i] = "blob"
    /\ \/ blobs' = blobs \ {i}
       \/ UNCHANGED blobs
    /\ dpc' = [dpc EXCEPT ![i] = "meta"]
    /\ UNCHANGED <<nextId, apc, resp, jobs, queue, wpc, exc, lost, files, vmeta, lastPoll, prevPoll, upd, cancelled>>
    /\ UNCHANGED <<body, cls, vtime, clock, reply, sumIn, sumOut>>
    /\ UNCHANGED <<sd, ml>>

\* result = await collection.delete_one({"id": record_id});
\* return result.deleted_count > 0: 200, else 404; 500 when the store raises
DeleteVideoMeta(i) ==
    /\ ~LoopBusy
    /\ dpc[i] = "meta"
    /\ dpc' = [dpc EXCEPT ![i] = "idle"]
    /\ \/ /\ vmeta' = vmeta \ {i}
          /\ vtime' = [vtime EXCEPT ![i] = 0]
          /\ reply' = [op |-> "delete_video", id |-> i,
                       code |-> IF i \in vmeta THEN HTTP_OK ELSE 404]
       \/ /\ reply' = [op |-> "delete_video", id |-> i, code |-> 500]
          /\ UNCHANGED <<vmeta, vtime>>
    /\ UNCHANGED <<nextId, apc, resp, jobs, queue, wpc, exc, lost, files, blobs, lastPoll, prevPoll, upd, cancelled>>
    /\ UNCHANGED <<body, cls, clock, sumIn, sumOut>>
    /\ UNCHANGED <<sd, ml>>

\* ---------------------------------- DELETE /api/jobs/{job_id}, not found
\* (variant: deleting a job that is not stored is answered like a delete)
CancelJobNotFound_Ok(j) ==
    /\ ~LoopBusy
    /\ jobs[j] = NoJob
    /\ reply' = [op |-> "delete_job", id |-> j, code |-> HTTP_OK]
    /\ UNCHANGED <<nextId, apc, resp, jobs, queue, wpc, exc, lost, files, blobs, vmeta, lastPoll, prevPoll, upd, cancelled>>
    /\ UNCHANGED <<body, cls, vtime, clock, dpc, sumIn, sumOut>>
    /\ UNCHANGED <<sd, ml>>

\* deleted = await JobRecord.delete_by_id(job_id);
\* if not deleted: raise HTTPException(status_code=404, ...)
CancelJobNotFound(j) ==
    /\ ~LoopBusy
    /\ jobs[j] = NoJob
    /\ reply' = [op |-> "delete_job", id |-> j, code |-> 404]
    /\ UNCHANGED <<nextId, apc, resp, jobs, queue, wpc, exc, lost, files, blobs, vmeta, lastPoll, prevPoll, upd, cancelled>>
    /\ UNCHANGED <<body, cls, vtime, clock, dpc, sumIn, sumOut>>
    /\ UNCHANGED <<sd, ml>>

\* ------------------------------------------------------------ load_model
\* The handlers of the uploads c of POST /api/classify in the serving
\* process. Each handler awaits the upload and then, without another await,
\* calls classify_image and generate_annotated_image, which both call
\* load_model(model_path) with force_reload left at False.
Callers == 1..MaxCallers

\* the calls of load_model one handler makes: in classify_image and in
\* generate_annotated_image
CallsPerRequest == 2

\* ml_model as imported, with every upload at its await file.read()
ModelStart ==
    [cache |-> FALSE, loads |-> 0,
     pc |-> [c \in Callers |-> "request"],
     calls |-> [c \in Callers |-> 0],
     got |-> [c \in Callers |-> "none"]]

\* a handler is between two awaits: the event loop runs nothing else
OnLoop(c) == ml.pc[c] \in {"lookup", "download", "construct"}

\* the call has returned `what`: the handler makes its next call, or goes on
\* to its next await after the last one
Returned(c, what) ==
    [ml EXCEPT !.got[c] = what,
               !.calls[c] = @ + 1,
               !.pc[c] = IF ml.calls[c] + 1 < CallsPerRequest THEN "lookup" ELSE "respond"]

\* (variant: the handlers run in threads, which interleave at any statement)
Resume_Threaded(c) ==
    /\ ml.pc[c] = "request"
    /\ ml' = [ml EXCEPT !.pc[c] = "lookup"]
    /\ UNCHANGED <<nextId, apc, resp, jobs, queue, wpc, exc, lost, files, blobs, vmeta, lastPoll, prevPoll, upd, cancelled>>
    /\ UNCHANGED <<body, cls, vtime, clock, dpc, reply, sumIn, sumOut, sd>>

\* image_bytes = await file.read() has completed and the event loop, which
\* runs one handler at a time, resumes this one
Resume(c) ==
    /\ ml.pc[c] = "request"
    /\ \A d \in Callers : ~OnLoop(d)
    /\ ml' = [ml EXCEPT !.pc[c] = "lookup"]
    /\ UNCHANGED <<nextId, apc, resp, jobs, queue, wpc, exc, lost, files, blobs, vmeta, lastPoll, prevPoll, upd, cancelled>>
    /\ UNCHANGED <<body, cls, vtime, clock, dpc, reply, sumIn, sumOut, sd>>

\* load_model: if _model_cache is not None and not force_reload:
\*     return _model_cache
LoadLookup(c, force_reload) ==
    /\ ml.pc[c] = "lookup"
    /\ ml' = IF ml.cache /\ ~force_reload THEN Returned(c, "cached")
             ELSE [ml EXCEPT !.pc[c] = "download"]
    /\ UNCHANGED <<nextId, apc, resp, jobs, queue, wpc, exc, lost, files, blobs, vmeta, lastPoll, prevPoll, upd, cancelled>>
    /\ UNCHANGED <<body, cls, vtime, clock, dpc, reply, sumIn, sumOut, sd>>

\* load_model: model_path = hf_hub_download(...), or the local fallback when
\* the download raises, or RuntimeError when there is no fallback: the
\* handler answers 500
LoadDownload(c) ==
    /\ ml.pc[c] = "download"
    /\ \/ ml' = [ml EXCEPT !.pc[c] = "construct"]
       \/ ml' = [ml EXCEPT !.pc[c] = "failed", !.got[c] = "RuntimeError"]
    /\ UNCHANGED <<nextId, apc, resp, jobs, queue, wpc, exc, lost, files, blobs, vmeta, lastPoll, prevPoll, upd, cancelled>>
    /\ UNCHANGED <<body, cls, vtime, clock, dpc, reply, sumIn, sumOut, sd>>

\* load_model: model = YOLO(model_path); _model_cache = model; return model,
\* or FileNotFoundError / the constructor raises
LoadConstruct(c) ==
    /\ ml.pc[c] = "construct"
    /\ \/ ml' = [Returned(c, "loaded") EXCEPT !.cache = TRUE, !.loads = @ + 1]
       \/ ml' = [ml EXCEPT !.pc[c] = "failed", !.got[c] = "FileNotFoundError"]
    /\ UNCHANGED <<nextId, apc, resp, jobs, queue, wpc, exc, lost, files, blobs, vmeta, lastPoll, prevPoll, upd, cancelled>>
    /\ UNCHANGED <<body, cls, vtime, clock, dpc, reply, sumIn, sumOut, sd>>

\* -------------------------------------------------------------- shutdown
\* every request that was accepted has been answered: the server runs the
\* shutdown handlers after the requests in flight
Served(i) == apc[i] \in {"new", "returned", "err_create", "err_dispatch", "s_done", "i_done"}

\* shutdown_event: await close_mongodb_connection(), the client of the
\* serving process; a worker process opens its own client for every write
ShutdownClose ==
    /\ sd = "up"
    /\ \A i \in DOMAIN apc : Served(i)
    /\ sd' = "closed"
    /\ UNCHANGED <<nextId, apc, resp, jobs, queue, wpc, exc, lost, files, blobs, vmeta, lastPoll, prevPoll, upd, cancelled>>
    /\ UNCHANGED <<body, cls, vtime, clock, dpc, reply, sumIn, sumOut, ml>>

\* (variant: executor.shutdown(wait=False) returns at once)
ShutdownExecutor_NoWait ==
    /\ sd = "closed"
    /\ sd' = "down"
    /\ UNCHANGED <<nextId, apc, resp, jobs, queue, wpc, exc, lost, files, blobs, vmeta, lastPoll, prevPoll, upd, cancelled>>
    /\ UNCHANGED <<body, cls, vtime, clock, dpc, reply, sumIn, sumOut, ml>>

\* shutdown_event: executor.shutdown(wait=True) blocks until every work item
\* submitted to the pool has been run, then the handler returns
ShutdownExecutor ==
    /\ sd = "closed"
    /\ queue = <<>>
    /\ \A i \in DOMAIN wpc : ~Running(i)
    /\ sd' = "down"
    /\ UNCHANGED <<nextId, apc, resp, jobs, queue, wpc, exc, lost, files, blobs, vmeta, lastPoll, prevPoll, upd, cancelled>>
    /\ UNCHANGED <<body, cls, vtime, clock, dpc, reply, sumIn, sumOut, ml>>

\* ----------------------------------------------------------- statistics
\* class indices a model can put out; the stages are 0, 1, 2
RawClasses == 0..3
Stages == 0..2

\* parse_yolo_results: stage = int(cls); if stage not in [0, 1, 2]: stage = 0
ParseStage(c) == IF c \in {0, 1, 2} THEN c ELSE 0

\* str(k) of a small non-negative integer
Str(k) == <<"0", "1", "2", "3">>[k + 1]

\* (variant: the summary starts from two stages only)
EmptySummary_TwoStages == [k \in {0, 1} |-> 0]

\* stage_summary = {0: 0, 1: 0, 2: 0}
EmptySummary == [k \in {0, 1, 2} |-> 0]

\* stage_summary[stage] = stage_summary.get(stage, 0) + 1
CountStage(summary, stage) ==
    IF stage \in DOMAIN summary THEN [summary EXCEPT ![stage] = @ + 1]
    ELSE summary @@ (stage :> 1)

\* for detection in detections: ...
RECURSIVE CountStages(_, _)
CountStages(summary, dets) ==
    IF dets = <<>> THEN summary
    ELSE CountStages(CountStage(summary, Head(dets)), Tail(dets))

\* for frame_detections in frame_results: for det in frame_detections: ...
RECURSIVE CountFrames(_, _)
CountFrames(summary, frames) ==
    IF frames = <<>> THEN summary
    ELSE CountFrames(CountStages(summary, Head(frames)), Tail(frames))

\* stage_summary = {str(k): v for k, v in stage_summary.items()}
StringKeys(summary) ==
    [s \in {Str(k) : k \in DOMAIN summary} |->
        summary[CHOOSE k \in DOMAIN summary : Str(k) = s]]

\* total_detections += len(frame_detections), over the frames
RECURSIVE TotalDetections(_)
TotalDetections(frames) ==
    IF frames = <<>> THEN 0
    ELSE Len(Head(frames)) + TotalDetections(Tail(frames))

\* a / b of Python: the exact quotient; den = 0 stands for ZeroDivisionError
Quotient(a, b) == [num |-> a, den |-> b]

\* (variant: the quotient is taken whatever total_frames is)
Average_Unguarded(total, total_frames) == Quotient(total, total_frames)

\* total_detections / total_frames if total_frames > 0 else 0
Average(total, total_frames) ==
    IF total_frames > 0 THEN Quotient(total, total_frames) ELSE Quotient(0, 1)

\* sequences over S of length at most n
SeqsUpTo(S, n) == UNION {[1..k -> S] : k \in 0..n}

\* an image with the class indices the model found in it
ImageInputs == {[kind |-> "image", raw |-> r] : r \in SeqsUpTo(RawClasses, MaxDets)}

\* a classified video: the stages detected per frame, and the video
\* metadata, with or without its total_frames entry
VideoInputs ==
    {[kind |-> "video", frames |-> f, has_total_frames |-> h, total_frames |-> n] :
        f \in SeqsUpTo(SeqsUpTo(Stages, MaxFrameDets), MaxFrames),
        h \in BOOLEAN, n \in 0..(MaxFrames + 1)}

\* classify_flower_image: detections = classify_image(image_bytes), the
\* stage summary and flower_count of the answer
SummarizeImage ==
    /\ sumIn.kind = "image" /\ sumOut = NoSum
    /\ LET detections == [k \in DOMAIN sumIn.raw |-> ParseStage(sumIn.raw[k])]
       IN  sumOut' = [kind |-> "image",
                      flowers |-> detections,
                      flower_count |-> Len(detections),
                      stage_summary |-> StringKeys(CountStages(EmptySummary, detections))]
    /\ UNCHANGED <<nextId, apc, resp, jobs, queue, wpc, exc, lost, files, blobs, vmeta, lastPoll, prevPoll, upd, cancelled>>
    /\ UNCHANGED <<body, cls, vtime, clock, dpc, reply, sumIn>>
    /\ UNCHANGED <<sd, ml>>

\* VideoClassificationRecord.create, the aggregation and the fields of the
\* document it inserts;
\* total_frames = video_metadata.get('total_frames', len(frame_results))
RecordStatistics(frames, has_total_frames, n) ==
    LET total_detections == TotalDetections(frames)
        total_frames == IF has_total_frames THEN n ELSE Len(frames)
    IN  [total_frames |-> total_frames,
         total_detections |-> total_detections,
         average_flowers_per_frame |-> Average(total_detections, total_frames),
         stage_summary |-> StringKeys(CountFrames(EmptySummary, frames))]

\* _save_video_to_mongodb, the aggregation and the fields of the document
\* the worker inserts
SavedStatistics(frames, has_total_frames, n) ==
    LET total_detections == TotalDetections(frames)
        total_frames == IF has_total_frames THEN n ELSE Len(frames)
    IN  [total_frames |-> total_frames,
         total_detections |-> total_detections,
         average_flowers_per_frame |-> Average(total_detections, total_frames),
         stage_summary |-> StringKeys(CountFrames(EmptySummary, frames))]

\* (variant: the job result averages over the frames that have a list)
ResultStatistics_PerListedFrame(frames, total_frames) ==
    LET total_detections == TotalDetections(frames)
    IN  [total_frames |-> total_frames,
         total_detections |-> total_detections,
         average_flowers_per_frame |-> Average(total_detections, Len(frames)),
         stage_summary |->
             CountFrames(StringKeys(EmptySummary),
                         [f \in DOMAIN frames |->
                             [d \in DOMAIN frames[f] |-> Str(frames[f][d])]])]

\* process_video_sync, "Calculate statistics for response": the fields of
\* the job result; the summary starts from string keys and counts
\* str(det['stage'])
ResultStatistics(frames, total_frames) ==
    LET total_detections == TotalDetections(frames)
    IN  [total_frames |-> total_frames,
         total_detections |-> total_detections,
         average_flowers_per_frame |-> Average(total_detections, total_frames),
         stage_summary |->
             CountFrames(StringKeys(EmptySummary),
                         [f \in DOMAIN frames |->
                             [d \in DOMAIN frames[f] |-> Str(frames[f][d])]])]

\* the statistics st as the output of the aggregation `kind`
Output(kind, st) ==
    [kind |-> kind,
     total_frames |-> st.total_frames,
     total_detections |-> st.total_detections,
     average_flowers_per_frame |-> st.average_flowers_per_frame,
     stage_summary |-> st.stage_summary]

\* POST /api/classify-video: the document VideoClassificationRecord.create
\* stores, whose fields the handler returns
SummarizeRecord ==
    /\ sumIn.kind = "video" /\ sumOut = NoSum
    /\ sumOut' = Output("record", RecordStatistics(sumIn.frames, sumIn.has_total_frames,
                                                   sumIn.total_frames))
    /\ UNCHANGED <<nextId, apc, resp, jobs, queue, wpc, exc, lost, files, blobs, vmeta, lastPoll, prevPoll, upd, cancelled>>
    /\ UNCHANGED <<body, cls, vtime, clock, dpc, reply, sumIn>>
    /\ UNCHANGED <<sd, ml>>

\* worker, step 3: the document _save_video_to_mongodb stores
SummarizeSaved ==
    /\ sumIn.kind = "video" /\ sumOut = NoSum
    /\ sumOut' = Output("saved", SavedStatistics(sumIn.frames, sumIn.has_total_frames,
                                                 sumIn.total_frames))
    /\ UNCHANGED <<nextId, apc, resp, jobs, queue, wpc, exc, lost, files, blobs, vmeta, lastPoll, prevPoll, upd, cancelled>>
    /\ UNCHANGED <<body, cls, vtime, clock, dpc, reply, sumIn>>
    /\ UNCHANGED <<sd, ml>>

\* worker, after step 4: the statistics of the job result;
\* classification_result['total_frames'] raises KeyError without the entry
SummarizeResult ==
    /\ sumIn.kind = "video" /\ sumOut = NoSum
    /\ IF sumIn.has_total_frames
          THEN sumOut' = Output("result", ResultStatistics(sumIn.frames, sumIn.total_frames))
          ELSE sumOut' = [kind |-> "KeyError"]
    /\ UNCHANGED <<nextId, apc, resp, jobs, queue, wpc, exc, lost, files, blobs, vmeta, lastPoll, prevPoll, upd, cancelled>>
    /\ UNCHANGED <<body, cls, vtime, clock, dpc, reply, sumIn>>
    /\ UNCHANGED <<sd, ml>>

\* ------------------------------------------------------------------ spec
\* the asynchronous pipeline: submit handler, worker routine, cancel
NextAsync ==
    \/ SubmitWrite
    \/ \E j \in DOMAIN apc : SubmitCreate(j)
    \/ \E j \in DOMAIN apc : SubmitDispatch(j)
    \/ \E j \in DOMAIN apc : WorkerStart(j)
    \/ \E j \in DOMAIN apc : Import(j)
    \/ \E j \in DOMAIN apc : UpdateAnalyzing(j)
    \/ \E j \in DOMAIN apc : Classify(j)
    \/ \E j \in DOMAIN apc : UpdateGenerating(j)
    \/ \E j \in DOMAIN apc : Annotate(j)
    \/ \E j \in DOMAIN apc : UpdateSaving(j)
    \/ \E j \in DOMAIN apc : ReadOutput(j)
    \/ \E j \in DOMAIN apc : SaveUpload(j)
    \/ \E j \in DOMAIN apc : SaveInsert(j)
    \/ \E j \in DOMAIN apc : Cleanup(j)
    \/ \E j \in DOMAIN apc : UpdateCompleted(j)
    \/ \E j \in DOMAIN apc : UpdateFailed(j)
    \/ \E j \in DOMAIN apc : CleanupFailed(j)
    \/ \E j \in DOMAIN apc : CancelJob(j)

\* the synchronous video handler
NextSync ==
    \/ SyncBegin
    \/ \E i \in DOMAIN apc : SyncClassify(i)
    \/ \E i \in DOMAIN apc : SyncAnnotate(i)
    \/ \E i \in DOMAIN apc : SyncRead(i)
    \/ \E i \in DOMAIN apc : SyncUpload(i)
    \/ \E i \in DOMAIN apc : SyncInsert(i)
    \/ \E i \in DOMAIN apc : SyncRespond(i)
    \/ \E i \in DOMAIN apc : SyncFinally(i)

Next == NextAsync \/ NextSync

Spec == Init /\ [][Next]_vars

\* the asynchronous pipeline observed by a polling client
NextPoll ==
    \/ NextAsync
    \/ \E j \in DOMAIN apc : GetJobStatus(j)

SpecPoll == Init /\ [][NextPoll]_vars

\* the pool under load: one upload more than there are worker processes,
\* in behaviours where no step raises and no job is cancelled
PoolIds == 1..(MaxWorkers + 1)

InitPool == InitOver(PoolIds)

NoFault ==
    \A i \in DOMAIN apc :
        /\ exc[i] = None /\ lost[i] = {} /\ cancelled[i] = "no"
        /\ apc[i] \notin {"err_create", "err_dispatch"}

NextPool ==
    \/ SubmitWrite /\ NoFault'
    \/ \E j \in DOMAIN apc : SubmitCreate(j) /\ NoFault'
    \/ \E j \in DOMAIN apc : SubmitDispatch(j) /\ NoFault'
    \/ \E j \in DOMAIN apc : WorkerStart(j) /\ NoFault'
    \/ \E j \in DOMAIN apc : Import(j) /\ NoFault'
    \/ \E j \in DOMAIN apc : UpdateAnalyzing(j) /\ NoFault'
    \/ \E j \in DOMAIN apc : Classify(j) /\ NoFault'
    \/ \E j \in DOMAIN apc : UpdateGenerating(j) /\ NoFault'
    \/ \E j \in DOMAIN apc : Annotate(j) /\ NoFault'
    \/ \E j \in DOMAIN apc : UpdateSaving(j) /\ NoFault'
    \/ \E j \in DOMAIN apc : ReadOutput(j) /\ NoFault'
    \/ \E j \in DOMAIN apc : SaveUpload(j) /\ NoFault'
    \/ \E j \in DOMAIN apc : SaveInsert(j) /\ NoFault'
    \/ \E j \in DOMAIN apc : Cleanup(j) /\ NoFault'
    \/ \E j \in DOMAIN apc : UpdateCompleted(j) /\ NoFault'

SpecPool == InitPool /\ [][NextPool]_vars

\* the handlers that create, look up and delete records and jobs by id, and
\* the rejected uploads; no worker process is scheduled in these behaviours
NextLookup ==
    \/ ImageReject
    \/ SyncReject
    \/ SubmitReject
    \/ ImageBegin
    \/ \E i \in DOMAIN apc : ImageCreate(i)
    \/ \E i \in DOMAIN apc : ImageRespond(i)
    \/ SyncBegin
    \/ \E i \in DOMAIN apc : SyncClassify(i)
    \/ \E i \in DOMAIN apc : SyncAnnotate(i)
    \/ \E i \in DOMAIN apc : SyncRead(i)
    \/ \E i \in DOMAIN apc : SyncUpload(i)
    \/ \E i \in DOMAIN apc : SyncInsert(i)
    \/ \E i \in DOMAIN apc : SyncRespond(i)
    \/ \E i \in DOMAIN apc : SyncFinally(i)
    \/ SubmitWrite
    \/ \E j \in DOMAIN apc : SubmitCreate(j)
    \/ \E j \in DOMAIN apc : SubmitDispatch(j)
    \/ \E j \in DOMAIN apc : CancelJob(j)
    \/ \E j \in DOMAIN apc : CancelJobNotFound(j)
    \/ \E i \in DOMAIN apc : DeleteClassification(i)
    \/ \E i \in DOMAIN apc : DeleteVideoLookup(i)
    \/ \E i \in DOMAIN apc : DeleteVideoBlob(i)
    \/ \E i \in DOMAIN apc : DeleteVideoMeta(i)

SpecLookup == Init /\ [][NextLookup]_vars

\* the two record stores filled by several uploads and emptied by deletes,
\* in behaviours where no handler fails
MaxRecords == 2

RecIds == 1..MaxRecords

InitRecords == InitOver(RecIds)

\* no handler has answered 500
NoError ==
    /\ reply.code # 500
    /\ \A i \in DOMAIN apc : resp[i] # 500

NextRecords ==
    \/ ImageBegin /\ NoError'
    \/ \E i \in DOMAIN apc : ImageCreate(i) /\ NoError'
    \/ \E i \in DOMAIN apc : ImageRespond(i) /\ NoError'
    \/ SyncBegin /\ NoError'
    \/ \E i \in DOMAIN apc : SyncClassify(i) /\ NoError'
    \/ \E i \in DOMAIN apc : SyncAnnotate(i) /\ NoError'
    \/ \E i \in DOMAIN apc : SyncRead(i) /\ NoError'
    \/ \E i \in DOMAIN apc : SyncUpload(i) /\ NoError'
    \/ \E i \in DOMAIN apc : SyncInsert(i) /\ NoError'
    \/ \E i \in DOMAIN apc : SyncRespond(i) /\ NoError'
    \/ \E i \in DOMAIN apc : SyncFinally(i) /\ NoError'
    \/ \E i \in DOMAIN apc : DeleteClassification(i) /\ NoError'
    \/ \E i \in DOMAIN apc : DeleteVideoLookup(i) /\ NoError'
    \/ \E i \in DOMAIN apc : DeleteVideoBlob(i) /\ NoError'
    \/ \E i \in DOMAIN apc : DeleteVideoMeta(i) /\ NoError'

SpecRecords == InitRecords /\ [][NextRecords]_vars

\* the aggregations applied to any detections
InitSummary ==
    /\ nextId = 1
    /\ apc = [i \in Ids |-> "new"]
    /\ resp = [i \in Ids |-> 0]
    /\ jobs = [i \in Ids |-> NoJob]
    /\ queue = <<>>
    /\ wpc = [i \in Ids |-> "idle"]
    /\ exc = [i \in Ids |-> None]
    /\ lost = [i \in Ids |-> {}]
    /\ files = [i \in Ids |-> [input |-> FALSE, output |-> FALSE]]
    /\ blobs = {}
    /\ vmeta = {}
    /\ lastPoll = NoPoll
    /\ prevPoll = NoPoll
    /\ upd = [i \in Ids |-> [status |-> "queued", progress |-> 0]]
    /\ cancelled = [i \in Ids |-> "no"]
    /\ body = [i \in Ids |-> NoBody]
    /\ cls = [i \in Ids |-> 0]
    /\ vtime = [i \in Ids |-> 0]
    /\ clock = 1
    /\ dpc = [i \in Ids |-> "idle"]
    /\ reply = NoReply
    /\ sumIn \in ImageInputs \cup VideoInputs
    /\ sumOut = NoSum
    /\ sd = "up"
    /\ ml = NoModel

NextSummary ==
    \/ SummarizeImage
    \/ SummarizeRecord
    \/ SummarizeSaved
    \/ SummarizeResult

SpecSummary == InitSummary /\ [][NextSummary]_vars

\* the asynchronous pipeline until the process is shut down: requests are
\* served while the application is up, the workers go on in their processes
Up == sd = "up" /\ sd' = "up"

NextShutdown ==
    \/ SubmitWrite /\ Up
    \/ \E j \in DOMAIN apc : SubmitCreate(j) /\ Up
    \/ \E j \in DOMAIN apc : SubmitDispatch(j) /\ Up
    \/ \E j \in DOMAIN apc : CancelJob(j) /\ Up
    \/ \E j \in DOMAIN apc : WorkerStart(j)
    \/ \E j \in DOMAIN apc : Import(j)
    \/ \E j \in DOMAIN apc : UpdateAnalyzing(j)
    \/ \E j \in DOMAIN apc : Classify(j)
    \/ \E j \in DOMAIN apc : UpdateGenerating(j)
    \/ \E j \in DOMAIN apc : Annotate(j)
    \/ \E j \in DOMAIN apc : UpdateSaving(j)
    \/ \E j \in DOMAIN apc : ReadOutput(j)
    \/ \E j \in DOMAIN apc : SaveUpload(j)
    \/ \E j \in DOMAIN apc : SaveInsert(j)
    \/ \E j \in DOMAIN apc : Cleanup(j)
    \/ \E j \in DOMAIN apc : UpdateCompleted(j)
    \/ \E j \in DOMAIN apc : UpdateFailed(j)
    \/ \E j \in DOMAIN apc : CleanupFailed(j)
    \/ ShutdownClose
    \/ ShutdownExecutor

SpecShutdown == Init /\ [][NextShutdown]_vars

\* the pool under load with failing jobs: one upload more than there are
\* worker processes; any step of a worker routine may raise. The store
\* writes of the status updates and of the submit handler succeed, the pool
\* accepts the work, and no job is cancelled.
RunOk ==
    /\ \A i \in DOMAIN apc : lost[i] = {} /\ cancelled[i] = "no"
    /\ \A i \in DOMAIN apc : apc[i] \notin {"err_create", "err_dispatch"}

\* a step of the worker routine of job j, from its start in a free process
WorkerStep(j) ==
    \/ WorkerStart(j)
    \/ Import(j)
    \/ UpdateAnalyzing(j)
    \/ Classify(j)
    \/ UpdateGenerating(j)
    \/ Annotate(j)
    \/ UpdateSaving(j)
    \/ ReadOutput(j)
    \/ SaveUpload(j)
    \/ SaveInsert(j)
    \/ Cleanup(j)
    \/ UpdateCompleted(j)
    \/ UpdateFailed(j)
    \/ CleanupFailed(j)

NextRun ==
    \/ SubmitWrite /\ RunOk'
    \/ \E j \in DOMAIN apc : SubmitCreate(j) /\ RunOk'
    \/ \E j \in DOMAIN apc : SubmitDispatch(j) /\ RunOk'
    \/ \E j \in DOMAIN apc : WorkerStart(j) /\ RunOk'
    \/ \E j \in DOMAIN apc : Import(j) /\ RunOk'
    \/ \E j \in DOMAIN apc : UpdateAnalyzing(j) /\ RunOk'
    \/ \E j \in DOMAIN apc : Classify(j) /\ RunOk'
    \/ \E j \in DOMAIN apc : UpdateGenerating(j) /\ RunOk'
    \/ \E j \in DOMAIN apc : Annotate(j) /\ RunOk'
    \/ \E j \in DOMAIN apc : UpdateSaving(j) /\ RunOk'
    \/ \E j \in DOMAIN apc : ReadOutput(j) /\ RunOk'
    \/ \E j \in DOMAIN apc : SaveUpload(j) /\ RunOk'
    \/ \E j \in DOMAIN apc : SaveInsert(j) /\ RunOk'
    \/ \E j \in DOMAIN apc : Cleanup(j) /\ RunOk'
    \/ \E j \in DOMAIN apc : UpdateCompleted(j) /\ RunOk'
    \/ \E j \in DOMAIN apc : UpdateFailed(j) /\ RunOk'
    \/ \E j \in DOMAIN apc : CleanupFailed(j) /\ RunOk'

\* a worker process that has a step to take takes it
SpecRun ==
    /\ InitPool
    /\ [][NextRun]_vars
    /\ WF_vars(\E j \in DOMAIN apc : WorkerStep(j) /\ RunOk')

\* the model cache of the serving process under uploads in flight together
InitModel ==
    /\ nextId = 1
    /\ apc = [i \in Ids |-> "new"]
    /\ resp = [i \in Ids |-> 0]
    /\ jobs = [i \in Ids |-> NoJob]
    /\ queue = <<>>
    /\ wpc = [i \in Ids |-> "idle"]
    /\ exc = [i \in Ids |-> None]
    /\ lost = [i \in Ids |-> {}]
    /\ files = [i \in Ids |-> [input |-> FALSE, output |-> FALSE]]
    /\ blobs = {}
    /\ vmeta = {}
    /\ lastPoll = NoPoll
    /\ prevPoll = NoPoll
    /\ upd = [i \in Ids |-> [status |-> "queued", progress |-> 0]]
    /\ cancelled = [i \in Ids |-> "no"]
    /\ body = [i \in Ids |-> NoBody]
    /\ cls = [i \in Ids |-> 0]
    /\ vtime = [i \in Ids |-> 0]
    /\ clock = 1
    /\ dpc = [i \in Ids |-> "idle"]
    /\ reply = NoReply
    /\ sumIn = NoSum
    /\ sumOut = NoSum
    /\ sd = "up"
    /\ ml = ModelStart

NextModel ==
    \/ \E c \in Callers : Resume(c)
    \/ \E c \in Callers : LoadLookup(c, FALSE)
    \/ \E c \in Callers : LoadDownload(c)
    \/ \E c \in Callers : LoadConstruct(c)

SpecModel == InitModel /\ [][NextModel]_vars

TypeOK ==
    /\ nextId \in 1..(Cardinality(DOMAIN apc) + 1)
    /\ \A i \in DOMAIN apc : resp[i] \in {0, 200, 500}
    /\ reply.code \in {0, 200, 400, 404, 500}
    /\ clock \in 1..(2 * Cardinality(DOMAIN apc) + 1)
    /\ \A i \in DOMAIN apc : dpc[i] \in {"idle", "blob", "meta"}
    /\ sd \in {"up", "closed", "down"}
    /\ blobs \subseteq DOMAIN apc
    /\ vmeta \subseteq DOMAIN apc
    /\ \A i \in DOMAIN apc : lost[i] \subseteq {"processing", "completed", "failed"}

\* ================================================================ claims
Present(j) == jobs[j] # NoJob

\* the job's status is rewritten by this step
StatusStep(j, a, b) ==
    /\ Present(j) /\ jobs[j].status = a
    /\ jobs'[j] # NoJob /\ jobs'[j].status = b

StatusChanges(j) ==
    /\ Present(j) /\ jobs'[j] # NoJob
    /\ jobs'[j].status # jobs[j].status

\* C1 (as stated): the persisted status changes only along queued->processing,
\* processing->completed, processing->failed, and queued->failed when dispatch
\* fails before a worker starts; completed and failed are never left.
C1_Original ==
    [][\A j \in Ids : StatusChanges(j) =>
          \/ StatusStep(j, "queued", "processing")
          \/ StatusStep(j, "processing", "completed")
          \/ StatusStep(j, "processing", "failed")
          \/ StatusStep(j, "queued", "failed") /\ wpc[j] = "idle"]_vars

\* C1 (amended): the persisted status changes only along queued->processing,
\* processing->completed, processing->failed, queued->failed and
\* queued->completed; queued->failed is written by the submit handler when
\* dispatch fails before a worker starts, or by the exception handler of a
\* worker none of whose processing updates was stored; queued->completed is
\* written only after the worker's processing updates were lost; completed
\* and failed are never left.
C1_Transitions ==
    [][\A j \in Ids : StatusChanges(j) =>
          \/ StatusStep(j, "queued", "processing")
          \/ StatusStep(j, "processing", "completed")
          \/ StatusStep(j, "processing", "failed")
          \/ StatusStep(j, "queued", "failed")
                /\ \/ wpc[j] = "idle"
                   \/ wpc[j] = "update_failed"
                        /\ (exc[j] = "import" \/ "processing" \in lost[j])
          \/ StatusStep(j, "queued", "completed")
                /\ wpc[j] = "update_completed" /\ "processing" \in lost[j]]_vars

\* a worker that failed in classify_video after its only processing update
\* was lost has moved the record from queued to failed
C1_Witness ==
    \E j \in Ids :
        /\ wpc[j] = "done" /\ exc[j] = "classify_video"
        /\ "processing" \in lost[j] /\ "failed" \notin lost[j]
        /\ Present(j) /\ jobs[j].status = "failed"

\* C2 (as stated): a job record has result set iff its status is completed
\* and error set iff its status is failed, also for jobs failed by the
\* submit handler when dispatch fails.
C2_Original ==
    \A j \in Ids : Present(j) =>
        /\ (jobs[j].result # 0) <=> (jobs[j].status = "completed")
        /\ (jobs[j].error # None) <=> (jobs[j].status = "failed")

\* C3: a job record has completed_at set iff its status is completed or
\* failed (so the stamp is written by the update that makes it terminal).
C3_CompletedAtIffTerminal ==
    \A j \in Ids : Present(j) =>
        (jobs[j].completed_at <=> jobs[j].status \in Terminal)

\* a worker has ended in its handler and the failed record carries the stamp
C3_Witness ==
    \E j \in Ids :
        /\ wpc[j] = "done" /\ exc[j] # None
        /\ Present(j) /\ jobs[j].status = "failed" /\ jobs[j].completed_at

\* C4: of two successive polls of a job that both report processing, the
\* later one reports a progress at least as large as the earlier one.
C4_PollProgressMonotone ==
    (/\ prevPoll.status = "processing"
     /\ lastPoll.status = "processing"
     /\ prevPoll.job_id = lastPoll.job_id)
        => lastPoll.progress >= prevPoll.progress

\* two successive polls reported processing, the later with more progress
C4_Witness ==
    /\ prevPoll.status = "processing"
    /\ lastPoll.status = "processing"
    /\ prevPoll.job_id = lastPoll.job_id
    /\ lastPoll.progress > prevPoll.progress

StatusRank(st) ==
    IF st = "queued" THEN 0 ELSE IF st = "processing" THEN 1 ELSE 2

UpdatePositions ==
    {"update_analyzing", "update_generating", "update_saving",
     "update_completed", "update_failed"}

\* the worker of job j issues a status update in this step
Issues(j) == wpc[j] \in UpdatePositions /\ wpc'[j] # wpc[j]

\* C5 (as stated): the worker's status updates are ordered queued,
\* processing, terminal, and the progress they carry increases over the
\* whole sequence, the update into completed or failed included.
C5_Original ==
    [][\A j \in Ids : Issues(j) =>
          /\ StatusRank(upd'[j].status) >= StatusRank(upd[j].status)
          /\ upd[j].status \notin Terminal
          /\ upd'[j].progress > upd[j].progress]_vars

\* C5 (amended): the worker's status updates are ordered queued, processing,
\* terminal, and the progress they carry increases strictly over the
\* processing updates and the completed update; the failed update carries
\* progress 0.
C5_OrderedUpdates ==
    [][\A j \in Ids : Issues(j) =>
          /\ StatusRank(upd'[j].status) >= StatusRank(upd[j].status)
          /\ upd[j].status \notin Terminal
          /\ upd'[j].status # "failed" => upd'[j].progress > upd[j].progress
          /\ upd'[j].status = "failed" => upd'[j].progress = 0]_vars

\* a worker that had reported progress 80 has written failed with progress 0
C5_Witness ==
    \E j \in Ids :
        /\ exc[j] = "insert_one"
        /\ upd[j] = [status |-> "failed", progress |-> 0]
        /\ Present(j) /\ jobs[j].status = "failed" /\ jobs[j].progress = 0

\* C6: once DELETE /api/jobs/{job_id} has removed the record of a queued or
\* running job, no status update of the worker re-creates it and none raises
\* in the worker.
C6_CancelledStaysDeleted ==
    [][\A j \in Ids : cancelled[j] \in {"queued", "running"} =>
          /\ jobs'[j] = NoJob
          /\ (wpc[j] \in UpdatePositions /\ wpc'[j] # wpc[j]) => exc'[j] = exc[j]]_vars

\* the record was deleted while the worker ran; the worker has issued every
\* update up to completed and returned without an exception
C6_Witness ==
    \E j \in Ids :
        /\ cancelled[j] = "running" /\ jobs[j] = NoJob
        /\ wpc[j] = "done" /\ exc[j] = None /\ lost[j] = {}
        /\ upd[j].status = "completed"

\* C7 (as stated): when the job record is deleted while its worker is
\* running, the worker runs to its end and no video classification record
\* with id = job_id is stored.
C7_Original ==
    \A j \in Ids : (cancelled[j] = "running" /\ wpc[j] = "done") => j \notin vmeta

C9_Original ==
    \A j \in Ids : apc[j] = "err_dispatch" =>
        /\ Present(j) => jobs[j].status = "failed"
        /\ resp[j] = 200

\* C9 (amended): when dispatching fails after the record was created, the
\* job is moved to failed, no worker is started, and the failure is surfaced:
\* the submit request answers 500.
C9_DispatchFailure ==
    \A j \in Ids : apc[j] = "err_dispatch" =>
        /\ Present(j) => jobs[j].status = "failed"
        /\ wpc[j] = "idle"
        /\ resp[j] = 500

\* dispatch failed for a stored job
C9_Witness ==
    \E j \in Ids :
        apc[j] = "err_dispatch" /\ Present(j) /\ jobs[j].status = "failed"

\* C10 (as stated): once the processing routine of an upload has ended
\* (worker or synchronous handler, success or failure), neither its input
\* file nor its output file exists.
C10_Original ==
    \A i \in Ids : (wpc[i] = "done" \/ apc[i] = "s_done") =>
        (~files[i].input /\ ~files[i].output)

\* C11: whenever a poll reports a job completed, the result it carries is
\* the one of that job_id (video_path = /api/videos/{job_id}), and the blob
\* and the metadata document of the video with id = job_id have been written.
C11_CompletedHasVideo ==
    lastPoll.status = "completed" =>
        /\ lastPoll.result = lastPoll.job_id
        /\ lastPoll.job_id \in vmeta
        /\ lastPoll.job_id \in blobs

\* a poll has reported completed for a job whose video is stored
C11_Witness ==
    /\ lastPoll.status = "completed"
    /\ lastPoll.result = lastPoll.job_id
    /\ lastPoll.job_id \in vmeta \cap blobs

\* C12: at most MAX_WORKERS worker routines execute at any moment; an upload
\* submitted while every worker process is busy is accepted (answered 200
\* with status queued) and its job stays queued while it waits for a free
\* process; no submission is rejected and no job failed for lack of capacity.
C12_PoolCapacity ==
    /\ Cardinality({i \in DOMAIN wpc : Running(i)}) <= MaxWorkers
    /\ \A j \in DOMAIN wpc :
          /\ wpc[j] = "pending" =>
                /\ resp[j] = HTTP_OK /\ body[j].status = "queued"
                /\ jobs[j] # NoJob /\ jobs[j].status = "queued"
          /\ resp[j] \in {0, HTTP_OK}
          /\ jobs[j] # NoJob => jobs[j].status # "failed"

\* every worker process is busy and one accepted job waits in the queue
C12_Witness ==
    /\ Cardinality({i \in DOMAIN wpc : Running(i)}) = MaxWorkers
    /\ \E j \in DOMAIN wpc :
          /\ wpc[j] = "pending" /\ resp[j] = HTTP_OK
          /\ jobs[j] # NoJob /\ jobs[j].status = "queued"

\* C13: a job record comes into being only in the submit handler, as
\* status queued, progress 0, with completed_at, result and error unset; and
\* the submit handler answers status queued and progress 0 for its job_id
\* while the worker of that job has not started.
C13_CreatedQueued ==
    [][\A j \in Ids :
          /\ (jobs[j] = NoJob /\ jobs'[j] # NoJob) =>
                /\ apc[j] = "written" /\ apc'[j] = "created"
                /\ jobs'[j] = [status |-> "queued", progress |-> 0, result |-> 0,
                               error |-> None, completed_at |-> FALSE]
          /\ (resp'[j] = HTTP_OK /\ apc'[j] = "returned") =>
                /\ body'[j] = [status |-> "queued", progress |-> 0]
                /\ (body'[j] # body[j] => wpc'[j] = "pending")]_vars

\* the submit handler has answered queued / 0 for a stored queued job whose
\* work item no worker process has taken yet
C13_Witness ==
    \E j \in Ids :
        /\ apc[j] = "returned" /\ resp[j] = HTTP_OK
        /\ body[j] = [status |-> "queued", progress |-> 0]
        /\ wpc[j] = "pending"
        /\ jobs[j] # NoJob /\ jobs[j].status = "queued" /\ jobs[j].progress = 0

Stores == <<cls, vmeta, vtime, blobs, jobs>>

\* the handler `op` answers in this step a request for id i
Answers(op, i) == reply' # reply /\ reply'.op = op /\ reply'.id = i

C16_RejectedNoEffect ==
    [][(reply' # reply /\ reply'.code = 400) =>
          /\ reply'.op \in {"classify", "classify-video", "classify-video-async"}
          /\ UNCHANGED <<Stores, files, queue, wpc, apc, resp, nextId>>]_vars

\* an upload to the asynchronous endpoint was rejected while a job was stored
C16_Witness ==
    /\ reply = [op |-> "classify-video-async", id |-> 0, code |-> 400]
    /\ \E j \in Ids : jobs[j] # NoJob /\ files[j].input

\* C17 (as stated): whenever a delete has reported success, the record is
\* no longer stored, and for a video record its blob is gone as well.
C17_Original ==
    /\ (reply.op = "delete_classification" /\ reply.code = HTTP_OK) =>
          cls[reply.id] = 0
    /\ (reply.op = "delete_video" /\ reply.code = HTTP_OK) =>
          (~VideoGetById(vmeta, reply.id) /\ reply.id \notin blobs)

\* l lists the documents with ids S and timestamps ts, each once, the
\* greatest timestamp first
IsListing(l, S, ts) ==
    /\ {l[k].id : k \in DOMAIN l} = S
    /\ Len(l) = Cardinality(S)
    /\ \A k \in DOMAIN l : l[k].timestamp = ts[l[k].id]
    /\ \A k \in 1..(Len(l) - 1) : l[k].timestamp >= l[k + 1].timestamp
    /\ l # <<>> => \A i \in S : l[1].timestamp >= ts[i]

\* C18: in every state reached by creates and deletes, get_all() of either
\* record store returns every stored record exactly once, ordered by
\* timestamp descending, the most recently stamped stored record first.
C18_GetAllOrdered ==
    /\ IsListing(ClassificationGetAll(cls), {i \in DOMAIN cls : cls[i] # 0}, cls)
    /\ IsListing(VideoGetAll(vmeta, vtime), vmeta, vtime)

\* two classifications are stored, the one with the smaller id stamped
\* later, and get_all() returns it first
C18_Witness ==
    /\ cls[1] > cls[2] /\ cls[2] > 0
    /\ ClassificationGetAll(cls)[1].id = 1
    /\ Len(ClassificationGetAll(cls)) = 2

\* the stages of all detections of the aggregation at hand, in one list
RECURSIVE Flatten(_)
Flatten(frames) ==
    IF frames = <<>> THEN <<>> ELSE Head(frames) \o Flatten(Tail(frames))

Detections ==
    IF sumOut.kind = "image" THEN sumOut.flowers ELSE Flatten(sumIn.frames)

\* C19: the stage summary of any list of detections has exactly the keys
\* "0", "1", "2" (also at count 0), each value is the number of detections of
\* that stage, and the values sum to the number of detections.
C19_StageSummary ==
    sumOut.kind \in {"image", "record", "result"} =>
        LET s == sumOut.stage_summary
        IN  /\ DOMAIN s = {"0", "1", "2"}
            /\ s["0"] = Cardinality({k \in DOMAIN Detections : Detections[k] = 0})
            /\ s["1"] = Cardinality({k \in DOMAIN Detections : Detections[k] = 1})
            /\ s["2"] = Cardinality({k \in DOMAIN Detections : Detections[k] = 2})
            /\ s["0"] + s["1"] + s["2"] = Len(Detections)
            /\ sumOut.kind = "image" => sumOut.flower_count = Len(Detections)

\* the summary of a video with detections of stage 1 only keeps the keys of
\* the stages that were not detected
C19_Witness ==
    /\ sumOut.kind = "record"
    /\ sumOut.stage_summary = ("0" :> 0) @@ ("1" :> 2) @@ ("2" :> 0)

\* C20: total_detections is the sum of the lengths of the per-frame lists of
\* detections; average_flowers_per_frame is total_detections / total_frames
\* when total_frames > 0 and 0 when total_frames is 0; no division by zero.
C20_Average ==
    sumOut.kind \in {"record", "result"} =>
        LET avg == sumOut.average_flowers_per_frame
        IN  /\ sumOut.total_detections = Len(Flatten(sumIn.frames))
            /\ avg.den # 0
            /\ sumOut.total_frames > 0 =>
                  avg.num * sumOut.total_frames = sumOut.total_detections * avg.den
            /\ sumOut.total_frames = 0 => avg.num = 0

\* a job result for a video with detections whose metadata says 0 frames
C20_Witness ==
    /\ sumOut.kind = "result"
    /\ sumOut.total_frames = 0 /\ sumOut.total_detections > 0
    /\ sumOut.average_flowers_per_frame = Quotient(0, 1)

\* the three statistics of an output that every path reports
Summary(o) ==
    [stage_summary |-> o.stage_summary,
     total_detections |-> o.total_detections,
     average_flowers_per_frame |-> o.average_flowers_per_frame]

\* C21: for the same frame_results and total_frames, the stage_summary,
\* total_detections and average_flowers_per_frame of a Completed job's result,
\* of the video record the worker stores for that job, and of the record the
\* synchronous path stores and returns, are identical.
C21_SameSummary ==
    (sumOut.kind \in {"record", "saved", "result"} /\ sumIn.has_total_frames) =>
        LET f == sumIn.frames
            n == sumIn.total_frames
        IN  /\ Summary(sumOut) = Summary(ResultStatistics(f, n))
            /\ Summary(sumOut) = Summary(SavedStatistics(f, TRUE, n))
            /\ Summary(sumOut) = Summary(RecordStatistics(f, TRUE, n))

\* a job result for two frames with a detection each, whose metadata counts
\* three frames
C21_Witness ==
    /\ sumOut.kind = "result"
    /\ Len(sumIn.frames) = 2 /\ sumOut.total_frames = 3
    /\ sumOut.total_detections = 2
    /\ sumOut.average_flowers_per_frame = Quotient(2, 3)

\* C22: shutdown does not complete while the worker routine of a dispatched
\* job is still executing or waiting in the pool, and every worker that was
\* dispatched has issued its terminal status update by then.
C22_ShutdownWaits ==
    sd = "down" =>
        \A j \in DOMAIN wpc :
            wpc[j] # "idle" => (wpc[j] = "done" /\ upd[j].status \in Terminal)

\* the shutdown has begun and waits for a worker that is about to write
\* its terminal status
C22_Witness ==
    /\ sd = "closed"
    /\ \E j \in DOMAIN wpc : wpc[j] = "update_completed" /\ jobs[j] # NoJob

\* C23 (as stated): the API layer only creates and deletes job records, so
\* every change of the status of a stored job is written by a status update
\* of the worker that handles that job.
C23_Original ==
    [][\A j \in Ids :
          (Present(j) /\ jobs'[j] # NoJob /\ jobs'[j].status # jobs[j].status) =>
              Issues(j)]_vars

\* the worker routine of job j has caught an exception
Failing(j) == exc[j] # None

\* C24: a step in which the worker routine of a job raises, or in which its
\* exception handler runs, leaves the job record, the transient files and the
\* stored video record of every other job unchanged; and the pool still runs
\* every other job that waits in it to a terminal state.
C24_ExceptionIsolated ==
    /\ [][\A j \in PoolIds : \A k \in PoolIds \ {j} :
             (exc'[j] # None /\ wpc'[j] # wpc[j]) =>
                 /\ jobs'[k] = jobs[k]
                 /\ files'[k] = files[k]
                 /\ (k \in blobs') = (k \in blobs)
                 /\ (k \in vmeta') = (k \in vmeta)]_vars
    /\ \A j \in PoolIds : \A k \in PoolIds \ {j} :
          (Failing(j) /\ wpc[k] = "pending" /\ Present(k)) ~>
              (~Present(k) \/ jobs[k].status \in Terminal)

\* a job has failed on an exception while another one was waiting for the
\* worker process, and that one has been run to completion
C24_Witness ==
    \E j \in PoolIds : \E k \in PoolIds \ {j} :
        /\ Failing(j) /\ Present(j) /\ jobs[j].status = "failed"
        /\ j < k /\ wpc[k] = "done" /\ Present(k) /\ jobs[k].status = "completed"
        /\ k \in vmeta /\ j \notin vmeta

\* insert_one of the video document of id i raises in this step, in the
\* worker or in the synchronous handler
InsertFails(i) ==
    \/ wpc[i] = "insert" /\ wpc'[i] = "update_failed"
    \/ apc[i] = "s_insert" /\ apc'[i] = "s_finally"

\* C25: the blob is written before the metadata document, so every metadata
\* document has its blob written; when the metadata write fails after the blob
\* write, no metadata document exists for the id and the blob stays in blob
\* storage: nothing deletes it.
C25_BlobBeforeMetadata ==
    /\ [](vmeta \subseteq blobs)
    /\ [](\A j \in Ids : exc[j] = "insert_one" => (j \in blobs /\ j \notin vmeta))
    /\ [][/\ blobs \subseteq blobs'
          /\ \A i \in Ids : InsertFails(i) => (i \in blobs' /\ i \notin vmeta')]_vars

\* a worker whose insert_one raised has ended: the blob is an orphan
C25_Witness ==
    \E j \in Ids :
        wpc[j] = "done" /\ exc[j] = "insert_one" /\ j \in blobs /\ j \notin vmeta

\* C26 (as stated): model inference is never executed by a request handler:
\* no handler stands at a call of classify_video or generate_annotated_video,
\* these calls run in worker processes only.
C26_Original ==
    \A i \in Ids : apc[i] \notin {"s_classify", "s_annotate"}

C28_EventuallyTerminal ==
    \A j \in PoolIds :
        (wpc[j] = "pending" /\ Present(j)) ~>
            (~Present(j) \/ jobs[j].status \in Terminal)

\* every job of a load above the pool size has ended, the one submitted
\* last as failed
C28_Witness ==
    /\ \A j \in PoolIds : wpc[j] = "done" /\ Present(j) /\ jobs[j].status \in Terminal
    /\ jobs[MaxWorkers + 1].status = "failed"

\* the worker of job j is about to issue its first status update: the
\* processing update, or the failed update when the import raised
FirstUpdate(j) ==
    \/ wpc[j] = "update_analyzing"
    \/ wpc[j] = "update_failed" /\ exc[j] = "import"

C30_Original ==
    \A i \in Ids : VideoGetById(vmeta, i) => i \in blobs

\* C30 (amended): a video metadata document has its blob from its creation
\* until delete_by_id removes the blob: a document without its blob exists
\* only through the blob step of a delete_by_id of that id, which comes before
\* the metadata step; for such a document get_by_id returns the document,
\* get_video_bytes returns None and GET /api/videos answers 404.
C30_BlobUntilDelete ==
    /\ [][\A i \in Ids :
             (VideoGetById(vmeta', i) /\ i \notin blobs') =>
                 /\ VideoGetById(vmeta, i)
                 /\ i \notin blobs \/ (dpc[i] = "blob" /\ dpc'[i] = "meta")]_vars
    /\ [](\A i \in Ids :
             (VideoGetById(vmeta, i) /\ i \notin blobs) =>
                 (~GetVideoBytes(vmeta, blobs, i) /\ GetVideo(vmeta, blobs, i) = 404))

\* a delete_by_id has removed the blob and not yet the metadata document
C30_Witness ==
    \E i \in Ids : dpc[i] = "meta" /\ VideoGetById(vmeta, i) /\ i \notin blobs

====
